---------------------------- MODULE Spec2Model ----------------------------
(***************************************************************************)
(* Remote Docker Manager (src/main.go): the SSH session gateway            *)
(* (executeSSHCommand), the inventory operations (GetContainers,           *)
(* LogContainers, Start/Stop/Restart/RemoveContainer), the output parser   *)
(* and the HTTP handlers that share the process-wide dockerManager.        *)
(*                                                                         *)
(* A Go string is a sequence of one-character strings, so that Split,      *)
(* TrimSpace, ToLower and Contains are computed character by character.    *)
(***************************************************************************)
EXTENDS Integers, Sequences, FiniteSets, Bags, TLC

(***************************************************************************)
(* Bounds of the model.                                                    *)
(***************************************************************************)
\* lines of a structured-listing text drawn for the parser
MaxLines == 2
\* '|'-delimited fields of one drawn line
MaxFields == 7
\* length of the texts drawn exhaustively over ParseAlphabet
MaxChars == 6
\* requests (goroutines) in flight at once
MaxCalls == 2
\* executeSSHCommand calls made in a run of the gateway
MaxExecs == 2

(***************************************************************************)
(* strings: the standard-library calls the parser makes                    *)
(***************************************************************************)
NL == "\n"
PIPE == "|"

\* the white space strings.TrimSpace removes (ASCII part)
WhiteSpace == {" ", "\t", NL, "\r"}

UpperCase == <<"A","B","C","D","E","F","G","H","I","J","K","L","M",
               "N","O","P","Q","R","S","T","U","V","W","X","Y","Z">>
LowerCase == <<"a","b","c","d","e","f","g","h","i","j","k","l","m",
               "n","o","p","q","r","s","t","u","v","w","x","y","z">>

\* strings.ToLower on one character
LowerChar(c) ==
    IF \E i \in 1..Len(UpperCase) : UpperCase[i] = c
    THEN LowerCase[CHOOSE i \in 1..Len(UpperCase) : UpperCase[i] = c]
    ELSE c

\* strings.ToLower
ToLower(s) == [i \in 1..Len(s) |-> LowerChar(s[i])]

\* strings.Contains(s, sub)
Contains(s, sub) ==
    \E i \in 1..(Len(s) - Len(sub) + 1) : SubSeq(s, i, i + Len(sub) - 1) = sub

RECURSIVE TrimLeft(_)
TrimLeft(s) ==
    IF Len(s) > 0 /\ Head(s) \in WhiteSpace THEN TrimLeft(Tail(s)) ELSE s

RECURSIVE TrimRight(_)
TrimRight(s) ==
    IF Len(s) > 0 /\ s[Len(s)] \in WhiteSpace
    THEN TrimRight(SubSeq(s, 1, Len(s) - 1))
    ELSE s

\* strings.TrimSpace
TrimSpace(s) == TrimRight(TrimLeft(s))

\* strings.Split(s, sep) for a one-character separator: always at least one
\* element, Split("", sep) = [""]
RECURSIVE Split(_, _)
Split(s, sep) ==
    IF \A i \in 1..Len(s) : s[i] # sep
    THEN <<s>>
    ELSE LET i == CHOOSE k \in 1..Len(s) :
                      s[k] = sep /\ \A j \in 1..(k - 1) : s[j] # sep
         IN  <<SubSeq(s, 1, i - 1)>> \o Split(SubSeq(s, i + 1, Len(s)), sep)

(***************************************************************************)
(* Go slices: a nil slice and an empty slice are different values (the     *)
(* JSON encoder writes null for the first and [] for the second).          *)
(***************************************************************************)
\* var containers []Container
NilSlice == [isNil |-> TRUE, items |-> <<>>]
\* []Container{}
EmptySlice == [isNil |-> FALSE, items |-> <<>>]
\* append(sl, x)
AppendSlice(sl, x) == [isNil |-> FALSE, items |-> Append(sl.items, x)]
\* len(sl)
LenSlice(sl) == Len(sl.items)

(***************************************************************************)
(* Output parser                                                           *)
(***************************************************************************)
\* the least number of fields of a line that yields a record
MinFields == 5

getStateFromStatusCaseSensitive(status) ==
    IF Contains(status, <<"u", "p">>) THEN "running" ELSE "stopped"

getStateFromStatus(status) ==
    IF Contains(ToLower(status), <<"u", "p">>) THEN "running" ELSE "stopped"

NewContainerUntrimmed(parts) ==
    [id      |-> parts[1],
     name    |-> parts[2],
     image   |-> parts[3],
     status  |-> parts[4],
     state   |-> getStateFromStatus(TrimSpace(parts[4])),
     created |-> parts[5],
     ports   |-> IF Len(parts) > 5 THEN parts[6] ELSE <<>>]

\* the Container literal of GetContainers and the ports assignment after it
NewContainer(parts) ==
    [id      |-> TrimSpace(parts[1]),
     name    |-> TrimSpace(parts[2]),
     image   |-> TrimSpace(parts[3]),
     status  |-> TrimSpace(parts[4]),
     state   |-> getStateFromStatus(TrimSpace(parts[4])),
     created |-> TrimSpace(parts[5]),
     ports   |-> IF Len(parts) > 5 THEN TrimSpace(parts[6]) ELSE <<>>]

\* the loop over lines of GetContainers, containers being the slice so far
RECURSIVE ParseLines(_, _)
ParseLines(lines, containers) ==
    IF lines = <<>>
    THEN containers
    ELSE LET line  == TrimSpace(Head(lines))
             parts == Split(line, PIPE)
         IN  IF line = <<>>
             THEN ParseLines(Tail(lines), containers)
             ELSE IF Len(parts) >= MinFields
                  THEN ParseLines(Tail(lines),
                                  AppendSlice(containers, NewContainer(parts)))
                  ELSE ParseLines(Tail(lines), containers)

\* GetContainers from the split of the structured listing to its return
ParseListing(formattedOutput) == ParseLines(Split(formattedOutput, NL), NilSlice)

(***************************************************************************)
(* Texts the parser is run on                                              *)
(***************************************************************************)
ParseAlphabet == {"a", " ", PIPE, NL}

\* every text over ParseAlphabet of at most MaxChars characters
CharTexts == UNION {[1..k -> ParseAlphabet] : k \in 0..MaxChars}

\* the fields of a line in one of five styles: as the runtime prints them,
\* padded with blanks, a stopped container whose name holds "up", all
\* fields empty, an upper/lower mix in the middle of the status
StyleFields ==
    << << <<"a">>, <<"w">>, <<"n">>, <<"U","p"," ","2">>, <<"c">>, <<"8">> >>,
       << <<" ","b"," ">>, <<" ","w">>, <<"n"," ">>, <<" ","U","P"," ">>,
          <<" ","c"," ">>, <<" ","8"," ">> >>,
       << <<"a">>, <<"u","p">>, <<"n">>, <<"E","x","i","t">>, <<"c">>, <<>> >>,
       << <<>>, <<>>, <<>>, <<>>, <<>>, <<>> >>,
       << <<"d">>, <<"w">>, <<"n">>, <<"x"," ","s","u","P","x">>, <<"c">>,
          <<"8"," ","9">> >> >>

FieldText(style, i) ==
    IF i <= Len(StyleFields[style]) THEN StyleFields[style][i] ELSE <<"z">>

RECURSIVE Join(_, _)
Join(strs, sep) ==
    IF Len(strs) = 0 THEN <<>>
    ELSE IF Len(strs) = 1 THEN strs[1]
    ELSE strs[1] \o <<sep>> \o Join(Tail(strs), sep)

\* a line of n fields in a style; no field gives the empty line
StyledLine(n, style) == Join([i \in 1..n |-> FieldText(style, i)], PIPE)

StyledLines == {StyledLine(n, st) : n \in 0..MaxFields, st \in 1..Len(StyleFields)}

StyledTexts ==
    {Join(ls, NL) : ls \in UNION {[1..k -> StyledLines] : k \in 1..MaxLines}}

ParseTexts == CharTexts \cup StyledTexts

(***************************************************************************)
(* Remote Session Gateway: executeSSHCommand, statement by statement       *)
(***************************************************************************)
\* a Go error: nil, or a message and the message of the error it wraps
NoError == [msg |-> "", cause |-> ""]
Error(m) == [msg |-> m, cause |-> ""]
\* fmt.Errorf(m + ": %v", err)
Wrap(m, err) == [msg |-> m, cause |-> err.msg]

\* the frame of one executeSSHCommand call: where it stands, the command and
\* the configuration it dials, the connection (client) and channel (session)
\* it has opened, its deferred calls (last deferred first) and what it
\* returns
NewFrame(command, config) ==
    [pc      |-> "dial",
     command |-> command,
     config  |-> config,
     conn    |-> "none",
     chan    |-> "none",
     defers  |-> <<>>,
     out     |-> <<>>,
     err     |-> NoError]

\* one deferred call
RunDeferred(f, d) ==
    IF d = "session.Close" THEN [f EXCEPT !.chan = "closed"]
    ELSE IF d = "client.Close" THEN [f EXCEPT !.conn = "closed"]
    ELSE f

\* the deferred calls of a returning frame, last deferred first
RECURSIVE RunDefers(_)
RunDefers(f) ==
    IF f.defers = <<>> THEN f
    ELSE RunDefers(RunDeferred([f EXCEPT !.defers = Tail(@)], Head(f.defers)))

\* return out, err
Return(f, out, err) ==
    [RunDefers(f) EXCEPT !.pc = "returned", !.out = out, !.err = err]

DialStepNoDefer(f, ok) ==
    IF ok
    THEN [f EXCEPT !.pc = "session", !.conn = "open"]
    ELSE Return(f, <<>>, Error("SSH connection failed"))

\* ssh.Dial, its error return, defer client.Close()
DialStep(f, ok) ==
    IF ok
    THEN [f EXCEPT !.pc = "session", !.conn = "open",
                   !.defers = <<"client.Close">> \o @]
    ELSE Return(f, <<>>, Error("SSH connection failed"))

\* client.NewSession, its error return, defer session.Close()
SessionStep(f, ok) ==
    IF ok
    THEN [f EXCEPT !.pc = "run", !.chan = "open",
                   !.defers = <<"session.Close">> \o @]
    ELSE Return(f, <<>>, Error("SSH session creation failed"))

\* session.Run and the returns after it; run is what the remote side did:
\* [ok, stdout, stderr]
RunStep(f, run) ==
    IF ~run.ok
    THEN IF run.stderr # <<>>
         THEN Return(f, <<>>, Error("command failed, stderr"))
         ELSE Return(f, <<>>, Error("command failed"))
    ELSE Return(f, run.stdout, NoError)

\* what the network and the remote host do to one executeSSHCommand call
DialFails == [dial |-> FALSE, session |-> FALSE,
              run |-> [ok |-> FALSE, stdout |-> <<>>, stderr |-> <<>>]]
SessionFails == [DialFails EXCEPT !.dial = TRUE]
RunEnds(run) == [dial |-> TRUE, session |-> TRUE, run |-> run]

\* executeSSHCommand from call to return
executeSSHCommand(command, config, o) ==
    LET f1 == DialStep(NewFrame(command, config), o.dial)
        f2 == IF f1.pc = "session" THEN SessionStep(f1, o.session) ELSE f1
    IN  IF f2.pc = "run" THEN RunStep(f2, o.run) ELSE f2

VARIABLES
    text,           \* the structured-listing output handed to the parser
    parsed,         \* [done, containers]: the parser's result for text
    gw,             \* the executeSSHCommand frames in progress
    wire,           \* the connections those frames have opened on the network
    dockerManager,  \* the process-wide manager: NoManager or its config
    calls,          \* the requests in flight, a bag: goroutines have no name
    answered        \* the request answered last, as its handler left it

vars == <<text, parsed, gw, wire, dockerManager, calls, answered>>

\* var dockerManager *DockerManager before the first configuration
NoManager == [host |-> "", port |-> "", username |-> "", password |-> ""]

CallIds == 1..MaxCalls

IdleFrame == [NewFrame("", NoManager) EXCEPT !.pc = "idle"]

\* a JSON key the handler does not write
Absent == [absent |-> TRUE]

\* what a request has been answered: nothing yet, a JSON envelope, or no
\* answer at all because the handler panicked
NoResponse ==
    [kind |-> "none", success |-> FALSE, error |-> NoError, message |-> "",
     containers |-> Absent, count |-> Absent]

\* a request: the handler (op) and where it stands (pc), the action verb and
\* container id, the handler's local config, the manager its method call is
\* bound to (dm), the command it issues next, the executeSSHCommand calls
\* that have returned to it (trace) and its answer; configured records
\* whether the handler found dockerManager set when the request arrived
\* (configHandler does not look)
IdleCall ==
    [op |-> "idle", pc |-> "", verb |-> "", id |-> "", config |-> NoManager,
     dm |-> NoManager, next |-> <<>>, trace |-> <<>>, resp |-> NoResponse,
     configured |-> FALSE]

\* the variables a specification of one part leaves as they start
ParserAtRest == text = <<>> /\ parsed = [done |-> FALSE, containers |-> NilSlice]
\* the network before any call: no executeSSHCommand call made (execs), no
\* ssh.Dial refused (refused), no slot running a call (of), holding a
\* connection (on) or a channel of it (ch), no connection opened (conns)
NoWire ==
    [execs |-> 0, refused |-> 0,
     of |-> [e \in CallIds |-> 0], on |-> [e \in CallIds |-> 0],
     ch |-> [e \in CallIds |-> 0], conns |-> <<>>]

GatewayAtRest == gw = [e \in CallIds |-> IdleFrame] /\ wire = NoWire
HandlersAtRest ==
    dockerManager = NoManager /\ calls = EmptyBag /\ answered = IdleCall

ParseInit ==
    /\ text \in ParseTexts
    /\ parsed = [done |-> FALSE, containers |-> NilSlice]
    /\ GatewayAtRest
    /\ HandlersAtRest

\* the parse of GetContainers applied to text
ParseStep ==
    /\ ~parsed.done
    /\ parsed' = [done |-> TRUE, containers |-> ParseListing(text)]
    /\ UNCHANGED <<text, gw, wire, dockerManager, calls, answered>>

ParseNext == ParseStep

ParseSpec == ParseInit /\ [][ParseNext]_vars


(***************************************************************************)
(* Command vocabulary and what the remote host may answer                  *)
(***************************************************************************)
WhichDocker == <<"which", "docker">>
DockerInfo == <<"docker", "info">>
DockerPs == <<"docker", "ps", "-a">>
DockerPsFormat ==
    <<"docker", "ps", "-a", "--format",
      "'{{.ID}}|{{.Names}}|{{.Image}}|{{.Status}}|{{.CreatedAt}}|{{.Ports}}'">>
DockerLogs(id) ==
    <<"docker", "logs", "--tail", "20", id, "2>&1", "|", "grep", "-v", "'^$'">>
DockerStart(id) == <<"docker", "start", id>>
DockerStop(id) == <<"docker", "stop", id>>
DockerRestart(id) == <<"docker", "restart", id>>
DockerRm(id) == <<"docker", "rm", "-f", id>>
Whoami == <<"whoami", "&&", "echo", "'SSH connection successful'">>
DockerVersion == <<"docker", "--version">>

\* the configurations a request can make active: host h, the default port
ConfigOf(h) == [host |-> h, port |-> "22", username |-> "root", password |-> "pw"]
ActiveConfigs == {ConfigOf(h) : h \in {"h1", "h2"}}

\* a command that ends with a non-zero status, with and without text on stderr
FailedRun(e) == [ok |-> FALSE, stdout |-> <<>>, stderr |-> e]
FailedRuns == {FailedRun(<<>>), FailedRun(<<"e">>)}

OkRun(out) == [ok |-> TRUE, stdout |-> out, stderr |-> <<>>]

(***************************************************************************)
(* GatewaySpec: executeSSHCommand calls running side by side, each         *)
(* stopping at its three network operations                                *)
(***************************************************************************)
GatewayCommands == {WhichDocker, DockerPs}

\* a caller enters executeSSHCommand in slot e: the call is numbered
WireCall(w, e) ==
    [w EXCEPT !.execs = @ + 1, !.of[e] = w.execs + 1, !.on[e] = 0, !.ch[e] = 0]

WireDialPooled(w, e, ok) ==
    IF ~ok THEN [w EXCEPT !.refused = @ + 1]
    ELSE IF w.conns # <<>> THEN [w EXCEPT !.on[e] = Len(w.conns)]
    ELSE [w EXCEPT !.conns = Append(@, [by |-> w.of[e], chans |-> <<>>]),
                   !.on[e] = Len(w.conns) + 1]

\* ssh.Dial of the call in slot e: a connection of its own, with no channel
\* yet, that client refers to; none when the dial fails
WireDial(w, e, ok) ==
    IF ~ok THEN [w EXCEPT !.refused = @ + 1]
    ELSE [w EXCEPT !.conns = Append(@, [by |-> w.of[e], chans |-> <<>>]),
                   !.on[e] = Len(w.conns) + 1]

\* client.NewSession: a channel on the connection client refers to, with no
\* command yet, that session refers to; none when it fails
WireSession(w, e, ok) ==
    IF ~ok THEN w
    ELSE [w EXCEPT !.conns[w.on[e]].chans = Append(@, <<>>),
                   !.ch[e] = Len(w.conns[w.on[e]].chans) + 1]

\* session.Run(command): the channel session refers to carries the command
\* of call w.of[e]
WireRun(w, e) ==
    [w EXCEPT !.conns[w.on[e]].chans[w.ch[e]] = Append(@, w.of[e])]

\* the call has returned: client and session are out of scope
WireRelease(w, e) == [w EXCEPT !.of[e] = 0, !.on[e] = 0, !.ch[e] = 0]

GatewayInit ==
    /\ GatewayAtRest
    /\ ParserAtRest
    /\ HandlersAtRest

\* a caller enters executeSSHCommand
GwCall(e) ==
    /\ gw[e].pc = "idle"
    /\ wire.execs < MaxExecs
    /\ \E command \in GatewayCommands, config \in ActiveConfigs :
          gw' = [gw EXCEPT ![e] = NewFrame(command, config)]
    /\ wire' = WireCall(wire, e)
    /\ UNCHANGED <<text, parsed, dockerManager, calls, answered>>

GwDial(e) ==
    /\ gw[e].pc = "dial"
    /\ \E ok \in BOOLEAN :
          /\ gw' = [gw EXCEPT ![e] = DialStep(gw[e], ok)]
          /\ wire' = WireDial(wire, e, ok)
    /\ UNCHANGED <<text, parsed, dockerManager, calls, answered>>

GwNewSession(e) ==
    /\ gw[e].pc = "session"
    /\ \E ok \in BOOLEAN :
          /\ gw' = [gw EXCEPT ![e] = SessionStep(gw[e], ok)]
          /\ wire' = WireSession(wire, e, ok)
    /\ UNCHANGED <<text, parsed, dockerManager, calls, answered>>

GwRun(e) ==
    /\ gw[e].pc = "run"
    /\ \E run \in FailedRuns \cup {OkRun(<<"o", "k", NL>>)} :
          gw' = [gw EXCEPT ![e] = RunStep(gw[e], run)]
    /\ wire' = WireRun(wire, e)
    /\ UNCHANGED <<text, parsed, dockerManager, calls, answered>>

\* the caller has taken what the call returned
GwRelease(e) ==
    /\ gw[e].pc = "returned"
    /\ gw' = [gw EXCEPT ![e] = IdleFrame]
    /\ wire' = WireRelease(wire, e)
    /\ UNCHANGED <<text, parsed, dockerManager, calls, answered>>

GatewayNext ==
    \E e \in CallIds :
        GwCall(e) \/ GwDial(e) \/ GwNewSession(e) \/ GwRun(e) \/ GwRelease(e)

GatewaySpec == GatewayInit /\ [][GatewayNext]_vars

(***************************************************************************)
(* What the remote host answers to each command                            *)
(***************************************************************************)
ContainerIds == {"abc"}

\* docker ps -a: nothing, a blank line, the header line
RawListings == {<<>>, <<" ", NL>>, <<"I", "D", NL>>}

\* the structured listing: no line, a line too short for a record, a
\* six-field and a five-field line after one another
ListingTexts ==
    {<<>>,
     <<"x", PIPE, "y", NL>>,
     StyledLine(6, 1) \o <<NL>> \o StyledLine(5, 3) \o <<NL>>}

\* what docker logs wrote (stdout and stderr together, by 2>&1) and how it
\* ended
DockerLogsRuns ==
    {[ok |-> TRUE, text |-> t] :
        t \in {<<>>, <<"l", "1", NL, NL, "l", "2", NL>>, <<" ", NL, "x", NL>>}}
    \cup {[ok |-> FALSE, text |-> <<"E", "r", "r", NL>>]}

\* the lines of a text as grep reads them: a last line needs no newline
GrepLines(t) ==
    LET ls == Split(t, NL)
    IN  IF ls[Len(ls)] = <<>> THEN SubSeq(ls, 1, Len(ls) - 1) ELSE ls

RECURSIVE Unlines(_)
Unlines(ls) == IF ls = <<>> THEN <<>> ELSE Head(ls) \o <<NL>> \o Unlines(Tail(ls))

NonEmptyLine(l) == l # <<>>

\* "docker logs ... 2>&1 | grep -v '^$'": grep passes the non-empty lines on
\* and the pipeline ends with grep's status, 0 when it passed a line on,
\* whatever docker's own status was
LogsPipeline(r) ==
    LET kept == SelectSeq(GrepLines(r.text), NonEmptyLine)
    IN  [ok |-> kept # <<>>, stdout |-> Unlines(kept), stderr |-> <<>>]

IsLogs(command) == \E id \in ContainerIds : command = DockerLogs(id)

\* a command ends with a non-zero status, or with status 0 and its output
RemoteRuns(command) ==
    IF IsLogs(command) THEN {LogsPipeline(r) : r \in DockerLogsRuns}
    ELSE {FailedRun(<<"e">>)} \cup
         {OkRun(t) : t \in IF command = DockerPs THEN RawListings
                           ELSE IF command = DockerPsFormat THEN ListingTexts
                           ELSE {<<"o", "k", NL>>}}

\* every command the handlers issue
Commands ==
    {WhichDocker, DockerInfo, DockerPs, DockerPsFormat, Whoami, DockerVersion}
    \cup UNION {{DockerLogs(id), DockerStart(id), DockerStop(id),
                 DockerRestart(id), DockerRm(id)} : id \in ContainerIds}

\* what may happen to an executeSSHCommand call, by command
OutcomesOf ==
    [command \in Commands |->
        {DialFails, SessionFails} \cup {RunEnds(r) : r \in RemoteRuns(command)}]

Outcomes(command) == OutcomesOf[command]

(***************************************************************************)
(* Inventory service: GetContainers, LogContainers, the lifecycle verbs    *)
(***************************************************************************)
\* what a service function does once a command has returned: issue the
\* next command, or return (containers, err)
Issue(command) ==
    [kind |-> "issue", command |-> command, containers |-> NilSlice, err |-> NoError]
Ret(containers, err) ==
    [kind |-> "return", command |-> <<>>, containers |-> containers, err |-> err]

GetContainersAfterIgnoringPresence(f) ==
    IF f.command = WhichDocker THEN Issue(DockerInfo)
    ELSE IF f.err # NoError THEN Ret(EmptySlice, Wrap("command failed", f.err))
    ELSE IF f.command = DockerInfo THEN Issue(DockerPs)
    ELSE IF f.command = DockerPs THEN Issue(DockerPsFormat)
    ELSE Ret(ParseListing(f.out), NoError)

GetContainersAfterBlankAccepted(f) ==
    IF f.err # NoError
    THEN Ret(EmptySlice,
             Wrap(IF f.command = WhichDocker
                  THEN "Docker is not installed or not in PATH"
                  ELSE IF f.command = DockerInfo
                  THEN "Docker daemon is not running or permission denied"
                  ELSE IF f.command = DockerPs THEN "Docker ps command failed"
                  ELSE "Docker ps formatted command failed", f.err))
    ELSE IF f.command = WhichDocker THEN Issue(DockerInfo)
    ELSE IF f.command = DockerInfo THEN Issue(DockerPs)
    ELSE IF f.command = DockerPs THEN Issue(DockerPsFormat)
    ELSE Ret(ParseListing(f.out), NoError)

\* GetContainers after the executeSSHCommand call of frame f has returned
GetContainersAfter(f) ==
    IF f.command = WhichDocker
    THEN IF f.err # NoError
         THEN Ret(EmptySlice, Wrap("Docker is not installed or not in PATH", f.err))
         ELSE Issue(DockerInfo)
    ELSE IF f.command = DockerInfo
    THEN IF f.err # NoError
         THEN Ret(EmptySlice,
                  Wrap("Docker daemon is not running or permission denied", f.err))
         ELSE Issue(DockerPs)
    ELSE IF f.command = DockerPs
    THEN IF f.err # NoError
         THEN Ret(EmptySlice, Wrap("Docker ps command failed", f.err))
         ELSE IF TrimSpace(f.out) = <<>>
              THEN Ret(EmptySlice, Error("Docker ps returned empty output"))
              ELSE Issue(DockerPsFormat)
    ELSE IF f.err # NoError
         THEN Ret(EmptySlice, Wrap("Docker ps formatted command failed", f.err))
         ELSE Ret(ParseListing(f.out), NoError)

\* the loop over lines of LogContainers
RECURSIVE ParseLogLines(_, _)
ParseLogLines(lines, containers) ==
    IF lines = <<>>
    THEN containers
    ELSE LET line == TrimSpace(Head(lines))
         IN  IF line = <<>>
             THEN ParseLogLines(Tail(lines), containers)
             ELSE IF Len(line) >= 1
                  THEN ParseLogLines(Tail(lines),
                                     AppendSlice(containers, [log |-> line]))
                  ELSE ParseLogLines(Tail(lines), containers)

RECURSIVE ParseLogLinesUntrimmed(_, _)
ParseLogLinesUntrimmed(lines, containers) ==
    IF lines = <<>>
    THEN containers
    ELSE IF TrimSpace(Head(lines)) = <<>>
         THEN ParseLogLinesUntrimmed(Tail(lines), containers)
         ELSE ParseLogLinesUntrimmed(Tail(lines),
                  AppendSlice(containers, [log |-> Head(lines)]))

ParseLogsUntrimmed(formattedOutput) ==
    ParseLogLinesUntrimmed(Split(formattedOutput, NL), NilSlice)

\* LogContainers from the split of the log-tail output to its return
ParseLogs(formattedOutput) == ParseLogLines(Split(formattedOutput, NL), NilSlice)

(***************************************************************************)
(* LogParseSpec: the parse of LogContainers on drawn texts                 *)
(***************************************************************************)
\* log-tail outputs with a tab, a carriage return and more than one word on
\* a line, beside every text of CharTexts
LogSamples ==
    {<<"l", "1", NL, NL, "l", "2", NL>>,
     <<"\t", "x", " ", "y", "\r", NL, "\r", NL, " ", PIPE, " ", "z">>,
     <<NL, "E", "r", "r", ":", " ", "n", "o", NL, NL>>}

LogTexts == CharTexts \cup LogSamples

LogParseInit ==
    /\ text \in LogTexts
    /\ parsed = [done |-> FALSE, containers |-> NilSlice]
    /\ GatewayAtRest
    /\ HandlersAtRest

\* the parse of LogContainers applied to text
ParseLogStep ==
    /\ ~parsed.done
    /\ parsed' = [done |-> TRUE, containers |-> ParseLogs(text)]
    /\ UNCHANGED <<text, gw, wire, dockerManager, calls, answered>>

LogParseNext == ParseLogStep

LogParseSpec == LogParseInit /\ [][LogParseNext]_vars

LogContainersAfterIgnoringPresence(f, id) ==
    IF f.command = WhichDocker THEN Issue(DockerLogs(id))
    ELSE IF f.err # NoError
         THEN Ret(EmptySlice, Wrap("Docker ps formatted command failed", f.err))
         ELSE Ret(ParseLogs(f.out), NoError)

\* LogContainers(id) after the executeSSHCommand call of frame f has returned
LogContainersAfter(f, id) ==
    IF f.command = WhichDocker
    THEN IF f.err # NoError
         THEN Ret(EmptySlice, Wrap("Docker is not installed or not in PATH", f.err))
         ELSE Issue(DockerLogs(id))
    ELSE IF f.err # NoError
         THEN Ret(EmptySlice, Wrap("Docker ps formatted command failed", f.err))
         ELSE Ret(ParseLogs(f.out), NoError)

\* the command of StartContainer, StopContainer, RestartContainer and
\* RemoveContainer
LifecycleCommand(verb, id) ==
    IF verb = "start" THEN DockerStart(id)
    ELSE IF verb = "stop" THEN DockerStop(id)
    ELSE IF verb = "restart" THEN DockerRestart(id)
    ELSE DockerRm(id)

KnownVerbsAndPause == {"start", "stop", "restart", "remove", "pause"}

\* the cases of containerActionHandler's switch
KnownVerbs == {"start", "stop", "restart", "remove"}

(***************************************************************************)
(* HTTP handlers.  A handler runs in its own goroutine; its steps are the  *)
(* stretches between its reads and writes of dockerManager and its         *)
(* executeSSHCommand calls, each of which blocks for the remote round trip *)
(* and is taken from call to return.                                       *)
(***************************************************************************)
\* json.NewEncoder(w).Encode(map[string]interface{}{...})
Failure(err) ==
    [kind |-> "json", success |-> FALSE, error |-> err, message |-> "",
     containers |-> Absent, count |-> Absent]
FailureWithContainers(err) == [Failure(err) EXCEPT !.containers = EmptySlice]
Success(message) ==
    [kind |-> "json", success |-> TRUE, error |-> NoError, message |-> message,
     containers |-> Absent, count |-> Absent]
SuccessWithContainers(containers) ==
    [kind |-> "json", success |-> TRUE, error |-> NoError, message |-> "",
     containers |-> containers, count |-> LenSlice(containers)]
\* a nil pointer dereference: net/http recovers the panic and closes the
\* connection without an answer
Panicked == [NoResponse EXCEPT !.kind = "panic"]

\* the answer of containersHandler and logsHandler to (containers, err)
ContainersAnswer(r) ==
    IF r.err # NoError THEN FailureWithContainers(r.err)
    ELSE SuccessWithContainers(r.containers)

ExecConfigOfGlobal(call) == dockerManager

\* dm.config as executeSSHCommand reads it: dm is the receiver the method
\* call was bound to
ExecConfig(call) == call.dm

Answered(call, resp) == [call EXCEPT !.pc = "done", !.next = <<>>, !.resp = resp]

\* the request runs executeSSHCommand(call.next) and then the service
\* function up to its next executeSSHCommand call or its return, and on a
\* return the handler up to its answer
Advance(call, o) ==
    LET f  == executeSSHCommand(call.next, ExecConfig(call), o)
        c1 == [call EXCEPT !.trace = Append(@, f)]
        st == IF call.op = "list" THEN GetContainersAfter(f)
              ELSE LogContainersAfter(f, call.id)
    IN  IF st.kind = "issue"
        THEN [c1 EXCEPT !.next = st.command]
        ELSE Answered(c1, ContainersAnswer(st))

InFlight == BagToSet(calls)

\* a request as it arrives at handler op
NewCall(op) ==
    [IdleCall EXCEPT !.op = op, !.configured = (dockerManager # NoManager)]

\* a request arrives while fewer than MaxCalls are in flight
CanArrive == BagCardinality(calls) < MaxCalls

\* the request old (IdleCall for one that arrives) has become new: it stays
\* in flight, or its handler has answered and returned
Proceed(old, new) ==
    LET rest == IF old = IdleCall THEN calls ELSE calls (-) SetToBag({old})
    IN  IF new.pc = "done"
        THEN calls' = rest /\ answered' = new
        ELSE calls' = rest (+) SetToBag({new}) /\ UNCHANGED answered

\* containersHandler up to the nil check
ListCheck ==
    /\ CanArrive
    /\ Proceed(IdleCall,
          IF dockerManager = NoManager
          THEN Answered(NewCall("list"),
                        FailureWithContainers(Error(
                   "No server configuration found. Please configure server first.")))
          ELSE [NewCall("list") EXCEPT !.pc = "invoke"])
    /\ UNCHANGED <<text, parsed, gw, wire, dockerManager>>

\* dockerManager.GetContainers(): the receiver is read, which docker is run
ListInvoke ==
    /\ \E call \in InFlight :
          /\ call.op = "list" /\ call.pc = "invoke"
          /\ \E o \in Outcomes(WhichDocker) :
                Proceed(call, Advance([call EXCEPT !.dm = dockerManager,
                                                   !.pc = "run",
                                                   !.next = WhichDocker], o))
    /\ UNCHANGED <<text, parsed, gw, wire, dockerManager>>

\* logsHandler: dockerManager.LogContainers(id) without a nil check
LogsInvoke ==
    /\ CanArrive
    /\ \E id \in ContainerIds, o \in Outcomes(WhichDocker) :
          Proceed(IdleCall,
              IF dockerManager = NoManager
              THEN Answered([NewCall("logs") EXCEPT !.id = id], Panicked)
              ELSE Advance([NewCall("logs") EXCEPT !.id = id,
                                                  !.dm = dockerManager,
                                                  !.pc = "run",
                                                  !.next = WhichDocker], o))
    /\ UNCHANGED <<text, parsed, gw, wire, dockerManager>>

\* the next executeSSHCommand call of GetContainers or LogContainers
ServiceRun ==
    /\ \E call \in InFlight :
          /\ call.op \in {"list", "logs"} /\ call.pc = "run"
          /\ \E o \in Outcomes(call.next) : Proceed(call, Advance(call, o))
    /\ UNCHANGED <<text, parsed, gw, wire, dockerManager>>

\* containerActionHandler up to its switch, and the switch's default case
ActionCheck ==
    /\ CanArrive
    /\ \E id \in ContainerIds, verb \in KnownVerbs \cup {"pause"} :
          LET call == [NewCall("action") EXCEPT !.id = id, !.verb = verb]
          IN  Proceed(IdleCall,
                  IF dockerManager = NoManager
                  THEN Answered(call, Failure(Error("No server configuration found")))
                  ELSE IF verb \notin KnownVerbs
                  THEN Answered(call, Failure(Error("Unknown action")))
                  ELSE [call EXCEPT !.pc = "invoke"])
    /\ UNCHANGED <<text, parsed, gw, wire, dockerManager>>

\* a case of the switch: the receiver is read, the lifecycle command is run,
\* the handler answers
ActionInvoke ==
    /\ \E call \in InFlight :
          /\ call.op = "action" /\ call.pc = "invoke"
          /\ LET c0 == [call EXCEPT !.dm = dockerManager,
                                    !.next = LifecycleCommand(call.verb, call.id)]
             IN  \E o \in Outcomes(c0.next) :
                    LET f == executeSSHCommand(c0.next, ExecConfig(c0), o)
                    IN  Proceed(call,
                            Answered([c0 EXCEPT !.trace = Append(@, f)],
                                     IF f.err # NoError THEN Failure(f.err)
                                     ELSE Success("Action completed successfully")))
    /\ UNCHANGED <<text, parsed, gw, wire, dockerManager>>

\* request bodies of /api/config: not JSON, a config lacking its host, its
\* username or its password, and configs for either host with and without
\* a port
RequestConfigs ==
    {[ConfigOf("h1") EXCEPT !.host = ""],
     [ConfigOf("h1") EXCEPT !.username = ""],
     [ConfigOf("h2") EXCEPT !.password = "", !.port = ""],
     ConfigOf("h1"),
     [ConfigOf("h1") EXCEPT !.port = ""],
     [ConfigOf("h2") EXCEPT !.port = ""]}
Bodies == {[json |-> FALSE, config |-> NoManager]}
          \cup {[json |-> TRUE, config |-> d] : d \in RequestConfigs}

\* configHandler from decoding the body to the assignment of dockerManager
ConfigDecode ==
    /\ CanArrive
    /\ \E body \in Bodies :
          LET config == IF body.config.port = ""
                        THEN [body.config EXCEPT !.port = "22"]
                        ELSE body.config
              call == [IdleCall EXCEPT !.op = "config"]
          IN  IF ~body.json
              THEN /\ Proceed(IdleCall,
                         Answered(call, Failure(Error("Invalid JSON format"))))
                   /\ UNCHANGED dockerManager
              ELSE IF body.config.host = "" \/ body.config.username = ""
                      \/ body.config.password = ""
              THEN /\ Proceed(IdleCall,
                         Answered(call, Failure(Error(
                             "Host, username and password are required"))))
                   /\ UNCHANGED dockerManager
              ELSE /\ Proceed(IdleCall,
                         [call EXCEPT !.config = config, !.pc = "run",
                                      !.next = Whoami])
                   /\ dockerManager' = config
    /\ UNCHANGED <<text, parsed, gw, wire>>

ConfigAfterConnectionTestOnly(f) ==
    IF f.err # NoError
    THEN Ret(NilSlice, Wrap("SSH connection failed", f.err))
    ELSE Ret(NilSlice, NoError)

\* configHandler after the executeSSHCommand call of frame f has returned
ConfigAfter(f) ==
    IF f.command = Whoami
    THEN IF f.err # NoError
         THEN Ret(NilSlice, Wrap("SSH connection failed", f.err))
         ELSE Issue(DockerVersion)
    ELSE IF f.err # NoError
         THEN Ret(NilSlice, Wrap("Docker is not available", f.err))
         ELSE Ret(NilSlice, NoError)

\* dockerManager.executeSSHCommand(...) in configHandler: the receiver is
\* read from dockerManager at each of the two calls
ConfigRun ==
    /\ \E call \in InFlight :
          /\ call.op = "config" /\ call.pc = "run"
          /\ LET c0 == [call EXCEPT !.dm = dockerManager]
             IN  \E o \in Outcomes(c0.next) :
                    LET f  == executeSSHCommand(c0.next, ExecConfig(c0), o)
                        c1 == [c0 EXCEPT !.trace = Append(@, f)]
                        st == ConfigAfter(f)
                    IN  Proceed(call,
                            IF st.kind = "issue"
                            THEN [c1 EXCEPT !.next = st.command]
                            ELSE Answered(c1,
                                     IF st.err # NoError THEN Failure(st.err)
                                     ELSE Success("Configuration saved successfully")))
    /\ UNCHANGED <<text, parsed, gw, wire, dockerManager>>

Init ==
    /\ HandlersAtRest
    /\ GatewayAtRest
    /\ ParserAtRest

Next ==
    \/ ListCheck
    \/ LogsInvoke
    \/ ActionCheck
    \/ ConfigDecode
    \/ ListInvoke
    \/ ServiceRun
    \/ ActionInvoke
    \/ ConfigRun

Spec == Init /\ [][Next]_vars

(***************************************************************************)
(* SeqSpec: the handlers driven by one client that sends a request only    *)
(* after the one before has been answered.                                 *)
(***************************************************************************)
NoneInFlight == calls = EmptyBag

SeqListCheck == NoneInFlight /\ ListCheck
SeqLogsInvoke == NoneInFlight /\ LogsInvoke
SeqActionCheck == NoneInFlight /\ ActionCheck
SeqConfigDecode == NoneInFlight /\ ConfigDecode

SeqNext ==
    \/ SeqListCheck
    \/ SeqLogsInvoke
    \/ SeqActionCheck
    \/ SeqConfigDecode
    \/ ListInvoke
    \/ ServiceRun
    \/ ActionInvoke
    \/ ConfigRun

SeqSpec == Init /\ [][SeqNext]_vars

(***************************************************************************)
(* The parser's contract, stated on positions of the text instead of by    *)
(* the parser's own loop.                                                  *)
(***************************************************************************)
\* the positions of sep in s
SepPositions(s, sep) == {i \in 1..Len(s) : s[i] = sep}

\* the j-th smallest position of sep in s; 0 before the first, Len(s)+1 after
\* the last
SepBound(s, sep, j) ==
    LET P == SepPositions(s, sep)
    IN  IF j = 0 THEN 0
        ELSE IF j > Cardinality(P) THEN Len(s) + 1
        ELSE CHOOSE p \in P : Cardinality({q \in P : q < p}) = j - 1

\* the number of sep-delimited pieces of s, and the j-th of them
PieceCount(s, sep) == Cardinality(SepPositions(s, sep)) + 1
Piece(s, sep, j) == SubSeq(s, SepBound(s, sep, j - 1) + 1, SepBound(s, sep, j) - 1)

\* s without its leading and trailing white space
Trimmed(s) ==
    LET N == {i \in 1..Len(s) : s[i] \notin WhiteSpace}
    IN  IF N = {} THEN <<>>
        ELSE SubSeq(s, CHOOSE i \in N : \A j \in N : i <= j,
                       CHOOSE i \in N : \A j \in N : j <= i)

\* the i-th line of t, trimmed
LineAt(t, i) == Trimmed(Piece(t, NL, i))

\* the lines of t that are not blank and have at least 5 fields
RecordLines(t) ==
    {i \in 1..PieceCount(t, NL) :
        LineAt(t, i) # <<>> /\ PieceCount(LineAt(t, i), PIPE) >= 5}

\* the k-th of them, in line order
RecordLine(t, k) ==
    CHOOSE i \in RecordLines(t) : Cardinality({j \in RecordLines(t) : j < i}) = k - 1

\* record r carries the fields of line l, each passed through F
CarriesFields(r, l, F(_)) ==
    /\ r.id = F(Piece(l, PIPE, 1))
    /\ r.name = F(Piece(l, PIPE, 2))
    /\ r.image = F(Piece(l, PIPE, 3))
    /\ r.status = F(Piece(l, PIPE, 4))
    /\ r.created = F(Piece(l, PIPE, 5))
    /\ r.ports = IF PieceCount(l, PIPE) >= 6 THEN F(Piece(l, PIPE, 6)) ELSE <<>>

Verbatim(s) == s

\* the records are, in line order, one per line of RecordLines(text), each
\* carrying that line's fields passed through F
OneRecordPerLine(F(_)) ==
    LET recs == parsed.containers.items
    IN  /\ Len(recs) = Cardinality(RecordLines(text))
        /\ \A k \in 1..Len(recs) :
              CarriesFields(recs[k], LineAt(text, RecordLine(text, k)), F)

\* C9, as claimed: one record per non-blank line with at least 5 fields, in
\* line order, its id, name, image, status, created equal to fields 1 to 5
\* and its ports equal to field 6 when present and empty otherwise.
C9_FieldsVerbatim == parsed.done => OneRecordPerLine(Verbatim)

\* C9, amended: one record per non-blank line with at least 5 fields, in line
\* order, its id, name, image, status, created equal to fields 1 to 5 with
\* their leading and trailing white space removed, its ports equal to field
\* 6 so trimmed when present and empty otherwise; shorter lines yield no
\* record and duplicate identifiers yield separate records.
C9_ListingParse == parsed.done => OneRecordPerLine(Trimmed)

\* two records with one identifier, the first from a 5-field line (ports
\* empty), the second with a ports field, parsed from a text with a padded
\* field
C9_Witness ==
    /\ parsed.done
    /\ Len(parsed.containers.items) = 2
    /\ parsed.containers.items[1].id = parsed.containers.items[2].id
    /\ parsed.containers.items[1].ports = <<>>
    /\ parsed.containers.items[2].ports # <<>>
    /\ Piece(LineAt(text, 2), PIPE, 6) # parsed.containers.items[2].ports

\* the status text holds "up" in any mix of upper and lower case
HoldsUp(status) ==
    \E i \in 1..(Len(status) - 1) :
        status[i] \in {"u", "U"} /\ status[i + 1] \in {"p", "P"}

\* C10: in every record of a listing the state is "running" exactly when the
\* record's own status text holds "up" in any case, and "stopped" otherwise.
C10_StateFromStatus ==
    parsed.done =>
        \A k \in 1..Len(parsed.containers.items) :
            LET r == parsed.containers.items[k]
            IN  /\ r.state \in {"running", "stopped"}
                /\ r.state = "running" <=> HoldsUp(r.status)

\* a running record whose status holds "UP" in upper case only, beside a
\* stopped record whose name, not its status, holds "up"
C10_Witness ==
    /\ parsed.done
    /\ \E k \in 1..Len(parsed.containers.items) :
          LET r == parsed.containers.items[k]
          IN  r.state = "running" /\ r.status = <<"U", "P">>
    /\ \E k \in 1..Len(parsed.containers.items) :
          LET r == parsed.containers.items[k]
          IN  r.state = "stopped" /\ Contains(r.name, <<"u", "p">>)

\* the lines of t that are not blank
LogLines(t) == {i \in 1..PieceCount(t, NL) : LineAt(t, i) # <<>>}

\* the k-th of them, in line order
LogLine(t, k) ==
    CHOOSE i \in LogLines(t) : Cardinality({j \in LogLines(t) : j < i}) = k - 1

\* C11: the Log Records of a log-tail output text are, in the order of the
\* text, one record per line that is not empty after trimming, the record
\* being that whole trimmed line, not split into fields; a blank line
\* yields no record.
C11_LogParse ==
    parsed.done =>
        LET recs == parsed.containers.items
        IN  /\ Len(recs) = Cardinality(LogLines(text))
            /\ \A k \in 1..Len(recs) :
                  recs[k] = [log |-> LineAt(text, LogLine(text, k))]

\* two records parsed from a text with a blank line between them, the
\* first holding the field delimiter of the listing and taken from a padded
\* line
C11_Witness ==
    /\ parsed.done
    /\ Len(parsed.containers.items) = 2
    /\ Contains(parsed.containers.items[1].log, <<PIPE>>)
    /\ LogLine(text, 2) - LogLine(text, 1) > 1
    /\ Piece(text, NL, LogLine(text, 1)) # parsed.containers.items[1].log

(***************************************************************************)
(* The gateway's release of what it opened                                 *)
(***************************************************************************)
\* C8: once an executeSSHCommand call has returned, by success, command
\* failure, channel creation failure or connection failure, no connection
\* and no channel it opened is still open.
C8_ReleasedOnReturn ==
    \A e \in CallIds :
        gw[e].pc = "returned" => gw[e].conn # "open" /\ gw[e].chan # "open"

\* a call has returned a command failure with its connection and channel
\* closed, another a channel creation failure with its connection closed,
\* while neither is a call that never connected
C8_Witness ==
    \E e1, e2 \in CallIds :
        /\ gw[e1].pc = "returned" /\ gw[e1].err.msg = "command failed, stderr"
        /\ gw[e1].conn = "closed" /\ gw[e1].chan = "closed"
        /\ gw[e2].pc = "returned" /\ gw[e2].err.msg = "SSH session creation failed"
        /\ gw[e2].conn = "closed" /\ gw[e2].chan = "none"

\* the executeSSHCommand calls whose ssh.Dial has returned
Dialed == wire.execs - Cardinality({e \in CallIds : gw[e].pc = "dial"})

\* the commands a connection has carried, over all its channels
RECURSIVE Carried(_)
Carried(chans) == IF chans = <<>> THEN <<>> ELSE Head(chans) \o Carried(Tail(chans))

\* every command has run on a connection and a channel that the call it
\* belongs to has opened, no connection and no channel has carried more
\* than one command, no call has opened more than one connection and the
\* connection and channel a running call refers to are its own
NoReuse ==
    /\ \A i \in 1..Len(wire.conns) :
          LET c == wire.conns[i]
          IN  /\ Len(Carried(c.chans)) <= 1
              /\ \A k \in 1..Len(c.chans) :
                    \A n \in 1..Len(c.chans[k]) : c.chans[k][n] = c.by
              /\ \A j \in 1..Len(wire.conns) : wire.conns[j].by = c.by => j = i
    /\ \A e \in CallIds :
          /\ gw[e].conn # "none" <=> wire.on[e] # 0
          /\ gw[e].chan # "none" <=> wire.ch[e] # 0
          /\ wire.on[e] # 0 =>
                /\ wire.conns[wire.on[e]].by = wire.of[e]
                /\ wire.ch[e] \in 0..Len(wire.conns[wire.on[e]].chans)
          /\ gw[e].pc = "returned" =>
                (gw[e].err.msg \in {"", "command failed", "command failed, stderr"}
                    <=> (wire.ch[e] # 0 /\
                         wire.conns[wire.on[e]].chans[wire.ch[e]] = <<wire.of[e]>>))

\* C13, as claimed: every remote command is run on a connection and channel
\* established by that same execute call; the number of connections opened
\* equals the number of execute invocations; no connection or channel
\* carries more than one command and none is reused by a later command.
C13_ConnectionPerInvocation ==
    /\ Len(wire.conns) = Dialed
    /\ NoReuse

\* C13, amended: as claimed, but the number of connections opened equals
\* the number of execute invocations whose dial succeeded: an invocation
\* whose dial fails opens no connection and runs no command.
C13_ConnectionPerSuccessfulDial ==
    /\ Len(wire.conns) = Dialed - wire.refused
    /\ NoReuse

\* two calls have run side by side and returned, each after its command ran
\* on the one channel of its own connection
C13_Witness ==
    /\ Len(wire.conns) = 2
    /\ \A i \in 1..2 : wire.conns[i].chans = <<(<<wire.conns[i].by>>)>>
    /\ \A e \in CallIds : gw[e].pc = "returned"
    /\ \E e \in CallIds : wire.on[e] = 2 /\ wire.of[e] = 1

(***************************************************************************)
(* The handlers' contracts                                                 *)
(***************************************************************************)
\* the requests there are: those in flight and the one answered last
Requests == InFlight \cup {answered}

ListingOrder == <<WhichDocker, DockerInfo, DockerPs, DockerPsFormat>>

\* the commands of request r have been issued in the order of want, each
\* once, each after all before it succeeded
IssuedInOrder(r, want) ==
    /\ Len(r.trace) <= Len(want)
    /\ \A i \in 1..Len(r.trace) : r.trace[i].command = want[i]
    /\ \A i \in 1..(Len(r.trace) - 1) : r.trace[i].err = NoError

\* C1: a listing call issues presence probe, daemon health probe, raw
\* listing, structured listing in this order, each at most once and each
\* only after every earlier one succeeded, the structured listing only
\* after a raw listing that is not blank; after a failed presence probe it
\* issues nothing.
C1_ListingOrder ==
    \A r \in Requests :
        r.op = "list" =>
            /\ IssuedInOrder(r, ListingOrder)
            /\ Len(r.trace) = 4 => Trimmed(r.trace[3].out) # <<>>
            /\ r.next # <<>> => r.next = ListingOrder[Len(r.trace) + 1]
            /\ (r.trace # <<>> /\ r.trace[1].err # NoError) =>
                   Len(r.trace) = 1 /\ r.next = <<>>

\* a listing call that issued all four commands has been answered with
\* success while another has issued three
C1_Witness ==
    /\ answered.op = "list" /\ Len(answered.trace) = 4 /\ answered.resp.success
    /\ \E r \in InFlight : r.op = "list" /\ Len(r.trace) = 3

\* C2: performAction with a verb outside start, stop, restart, remove, on a
\* configured engine, is answered the "Unknown action" failure and has
\* issued no remote command.
C2_UnknownVerb ==
    (answered.op = "action" /\ answered.configured
        /\ answered.verb \notin {"start", "stop", "restart", "remove"}) =>
            /\ answered.resp = Failure(Error("Unknown action"))
            /\ answered.trace = <<>>
            /\ answered.dm = NoManager

C2_Witness ==
    /\ answered.op = "action" /\ answered.verb = "pause" /\ answered.configured
    /\ answered.resp.error.msg = "Unknown action"

\* a listing call whose four commands all succeeded
ListedAll(r) ==
    /\ r.op = "list" /\ r.pc = "done" /\ Len(r.trace) = 4
    /\ \A i \in 1..4 : r.trace[i].err = NoError

\* C3: a listing call whose four commands succeed and whose structured
\* listing holds no line that yields a record is answered success with
\* containers the empty sequence [], not null, and count 0.
C3_EmptyListingIsEmptyArray ==
    (ListedAll(answered) /\ RecordLines(answered.trace[4].out) = {}) =>
        /\ answered.resp.kind = "json" /\ answered.resp.success
        /\ answered.resp.containers = EmptySlice
        /\ answered.resp.count = 0

\* the message GetContainers puts before the error of a failed command
ListingFailure(command) ==
    IF command = WhichDocker THEN "Docker is not installed or not in PATH"
    ELSE IF command = DockerInfo
    THEN "Docker daemon is not running or permission denied"
    ELSE IF command = DockerPs THEN "Docker ps command failed"
    ELSE "Docker ps formatted command failed"

\* C4: a failing listing call reports the error of its first failing step
\* and no other: RuntimeUnavailable for the presence probe,
\* DaemonUnavailable for the health probe, EmptyInventory for a raw listing
\* that succeeds with blank output (which always fails the call); and it
\* returns zero records.
C4_FirstFailure ==
    /\ (answered.op = "list" /\ answered.pc = "done" /\ ~answered.resp.success) =>
          /\ answered.resp.kind = "json"
          /\ answered.resp.containers = EmptySlice
          /\ answered.configured =>
                LET n    == Len(answered.trace)
                    last == answered.trace[n]
                IN  /\ n >= 1
                    /\ \A i \in 1..(n - 1) : answered.trace[i].err = NoError
                    /\ answered.resp.error =
                          IF last.err # NoError
                          THEN Wrap(ListingFailure(last.command), last.err)
                          ELSE Error("Docker ps returned empty output")
                    /\ last.err = NoError =>
                          last.command = DockerPs /\ Trimmed(last.out) = <<>>
    /\ (answered.op = "list" /\ Len(answered.trace) >= 3
           /\ answered.trace[3].err = NoError
           /\ Trimmed(answered.trace[3].out) = <<>>) =>
          /\ ~answered.resp.success
          /\ answered.resp.error = Error("Docker ps returned empty output")

\* a listing has failed on a raw listing that succeeded with white space
\* only
C4_Witness ==
    /\ answered.op = "list" /\ ~answered.resp.success
    /\ Len(answered.trace) = 3
    /\ answered.trace[3].err = NoError /\ answered.trace[3].out # <<>>

\* C5: a listInventory, tailLogs or performAction call is answered with an
\* envelope whatever the engine's state, and a call that does not succeed
\* with success=false and an error message.
C5_AlwaysEnvelope ==
    (answered.op \in {"list", "logs", "action"}) =>
        /\ answered.resp.kind = "json"
        /\ ~answered.resp.success => answered.resp.error.msg # ""

C7_DescriptorOfCallStart ==
    \A r \in Requests :
        r.op \in {"list", "logs"} =>
            \A i \in 1..Len(r.trace) :
                r.trace[i].config = r.dm /\ r.dm \in ActiveConfigs

\* a listing has run three commands and dockerManager is no longer the
\* manager it is bound to: the request that replaced it is still in flight
C7_Witness ==
    \E r, k \in InFlight :
        /\ r.op = "list" /\ Len(r.trace) = 3
        /\ k.op = "config" /\ k.config = dockerManager /\ k.trace = <<>>
        /\ r.dm # dockerManager

\* the commands that are specific to an operation
OperationCommands ==
    {DockerPsFormat} \cup
    UNION {{DockerLogs(id), DockerStart(id), DockerStop(id), DockerRestart(id),
            DockerRm(id)} : id \in ContainerIds}

\* request r has probed runtime presence before anything else, and after a
\* failed probe it has issued nothing more and is answered
\* RuntimeUnavailable
ProbesFirst(r) ==
    /\ r.trace # <<>> => r.trace[1].command = WhichDocker
    /\ (r.trace # <<>> /\ r.trace[1].err # NoError) =>
          /\ Len(r.trace) = 1 /\ r.next = <<>>
          /\ r.resp = FailureWithContainers(
                          Wrap("Docker is not installed or not in PATH",
                               r.trace[1].err))
    /\ \A i \in 1..Len(r.trace) :
          r.trace[i].command \in OperationCommands =>
              \E j \in 1..(i - 1) :
                  r.trace[j].command = WhichDocker /\ r.trace[j].err = NoError

\* C12, as claimed: every Inventory Service call, a lifecycle action
\* included, probes runtime presence first; when the probe fails the call
\* returns RuntimeUnavailable and its operation-specific command is never
\* issued.
C12_EveryCallProbesPresence ==
    \A r \in Requests : r.op \in {"list", "logs", "action"} => ProbesFirst(r)

\* C12, amended: the first remote command of a listing or log tail call is
\* the presence probe, and when it fails the call returns
\* RuntimeUnavailable without issuing its operation-specific command; a
\* lifecycle action issues its verb command and nothing else, with no
\* presence probe, and reports that command's own failure.
C12_ListingAndLogsProbePresence ==
    \A r \in Requests :
        /\ r.op \in {"list", "logs"} => ProbesFirst(r)
        /\ (r.op = "action" /\ r.trace # <<>>) =>
              /\ Len(r.trace) = 1
              /\ r.trace[1].command = LifecycleCommand(r.verb, r.id)
              /\ r.resp = IF r.trace[1].err # NoError
                          THEN Failure(r.trace[1].err)
                          ELSE Success("Action completed successfully")

\* a log tail call has been answered RuntimeUnavailable after its presence
\* probe ran and failed on the remote host, while a listing call is past
\* its own probe
C12_Witness ==
    /\ answered.op = "logs" /\ Len(answered.trace) = 1
    /\ answered.trace[1].err.msg = "command failed, stderr"
    /\ answered.resp.error.msg = "Docker is not installed or not in PATH"
    /\ \E r \in InFlight : r.op = "list" /\ Len(r.trace) >= 1

\* what the request answered last tells of the descriptor that is active
\* once it is answered, when requests come one after the other: none before
\* the first request and after a request that found none, the descriptor of
\* an applyConfiguration that reported success, the descriptor a listing,
\* log tail or action ran its commands against
TellsActive(prev) ==
    \/ prev = IdleCall
    \/ prev.op = "config" /\ prev.resp.success
    \/ prev.op \in {"list", "logs", "action"}
          /\ (~prev.configured \/ prev.trace # <<>>)

ActiveAfter(prev) ==
    IF prev = IdleCall THEN NoManager
    ELSE IF prev.op = "config" THEN prev.config
    ELSE IF prev.configured THEN prev.dm
    ELSE NoManager

\* C14: an applyConfiguration request that reports failure (invalid body,
\* missing host, username or password, connection test failure, runtime
\* check failure) leaves the active descriptor as it was before the
\* request: when it is answered, the active descriptor is the one that was
\* active after the request before it, or none if none was.
C14_FailureLeavesDescriptor ==
    [][(/\ answered' # answered
        /\ answered'.op = "config"
        /\ ~answered'.resp.success
        /\ TellsActive(answered))
            => dockerManager' = ActiveAfter(answered)]_vars

\* what the runtime's logs command may have done, given the frame f that
\* the executeSSHCommand call of the log tail returned
LogsRunsGiving(f) ==
    {r \in DockerLogsRuns :
        f = executeSSHCommand(f.command, f.config, RunEnds(LogsPipeline(r)))}

\* C15: a tailLogs call returns an error exactly when the presence probe
\* fails or the runtime's logs command itself ends with a non-zero status,
\* and success otherwise: a failing logs command is never reported as
\* success with its error text as Log Records, and a logs command that
\* succeeds with no output is reported as success with zero records.
C15_ErrorIffLogsCommandFails ==
    (answered.op = "logs" /\ answered.resp.kind = "json") =>
        /\ (Len(answered.trace) = 1 /\ answered.trace[1].err # NoError) =>
              ~answered.resp.success
        /\ Len(answered.trace) = 2 =>
              \A r \in LogsRunsGiving(answered.trace[2]) :
                  /\ answered.resp.success <=> r.ok
                  /\ r.ok => answered.resp.count = Cardinality(LogLines(r.text))

=============================================================================
